---- MODULE Spec2Model ----
(***************************************************************************)
(* A model of @suddenly/compiler (src/src/index.ts, second listing, and    *)
(* src/src/util.ts): the session compileAndRun drives (clean, compile,     *)
(* run), the bundler's build loop, the server reload loop of run(), and    *)
(* gracefullyExit.                                                         *)
(*                                                                         *)
(* Node runs each handler to completion; what the code leaves to a later   *)
(* turn of the event loop is a separate action here: the settling of       *)
(* FS.remove, of the tsc subprocess and of bundler.stop(), the bundler's   *)
(* events, the 'listening' callback of server.listen, file system change   *)
(* events and key strokes.                                                 *)
(*                                                                         *)
(* Three specifications: Spec is the session, with loadServer and the      *)
(* template injection as inputs of its handlers; SpecLoad is loadServer    *)
(* with the files and the require cache it works on; SpecInject is the     *)
(* template injection of the 'bundled' handler with the files it reads     *)
(* and writes.                                                             *)
(***************************************************************************)
EXTENDS Integers, Sequences, FiniteSets, TLC

\* ---------------------------------------------------------------- bounds
\* How many events of the two watch loops (bundler events and file system
\* change events together) a run may see.
MaxEvents == 4
\* How many bundler.stop() calls a key stroke or an uncaught exception may
\* add to the ones already pending.
MaxPending == 2

\* -------------------------------------------------------------- constants
\* process.env.PORT || 5000
DefaultPort == 5000
\* d[0] == 3: the Ctrl-C byte
CtrlC == 3

\* let lastProblemAt: Date = null; the dates new Date() gives are 1, 2, ...
Null == 0

\* The values process.env.PORT takes here: unset (0, falsy), or a port.
EnvPorts == {0, 8080}

\* File names fs.watch reports, relative to the watched directory, as
\* sequences of characters.
PublicBundle == <<"p","u","b","l","i","c","/","b",".","j","s">>
PublicDeep == <<"p","u","b","l","i","c","/","a","/","b">>
ServerRoutes == <<"s","r","c","/","r",".","j","s">>
Publicity == <<"p","u","b","l","i","c","i","t","y",".","j","s">>
NestedPublic == <<"a","/","p","u","b","l","i","c","/","b">>
Filenames == {PublicBundle, PublicDeep, ServerRoutes, Publicity, NestedPublic}

\* Key strokes: the first byte of the data chunk and whether the chunk's
\* text is exactly "q".
Keys == {[byte |-> CtrlC, isQ |-> FALSE], [byte |-> 113, isQ |-> TRUE],
         [byte |-> 120, isQ |-> FALSE]}

\* What the 'bundled' handler finds where it looks for index.html.ejs: a
\* template with placeholders; no file (FS.readFileSync throws); a template
\* without any <%= ... %> (match() gives null and .forEach throws).
Templates == {"ok", "missing", "plain"}

VARIABLES
  env,           \* NODE_ENV, PORT, options.isLoggingEnabled, tsconfig outDir
  pc,            \* where compileAndRun is: "start", "clean", "compile",
                 \*   "run" (run() has been called), "caught" (its catch ran)
  tsc,           \* the one-shot tsc: "idle", "running", "ok", "failed"
  tscWatch,      \* a detached tsc -w has been spawned
  dist,          \* what the compiled-output directory holds
  bundler,       \* module-level bundler: "none", "active", "stopped"
  isFirstBuild,  \* compileClient's isFirstBuild
  clientProblemAt, \* compileClient's lastProblemAt
  handlers,      \* run() has registered uncaughtException and stdin handlers
  watching,      \* run() has registered the FS.watch callback
  server,        \* run()'s server: version of the loaded module, 0 if none
  listener,      \* run()'s listener
  lastProblemAt, \* run()'s lastProblemAt
  open,          \* how many listeners have been opened and not destroyed
  disk,          \* version of the compiled server files on disk
  stopPending,   \* gracefullyExit calls waiting on bundler.stop()
  exited,        \* process.exit() has been called
  now,           \* the clock new Date() reads; one tick per loop event
  hist,          \* history: how the attempts of the two loops ended so far
  last,          \* the handler that ran last and what it did
  crashed,       \* Node ended the process on an exception nobody handled
  loader,        \* the files, the require cache and the result loadServer sees
  injector       \* the template files the 'bundled' handler reads and writes

\* The variables of the session.
session == <<env, pc, tsc, tscWatch, dist, bundler, isFirstBuild,
             clientProblemAt, handlers, watching, server, listener,
             lastProblemAt, open, disk, stopPending, exited, now, hist, last,
             crashed>>

vars == <<session, loader, injector>>

\* The loader and the injector when a specification leaves them out.
NoLoader == [on |-> FALSE]
NoInjector == [on |-> FALSE]

NoListener == [state |-> "none", version |-> 0, port |-> 0, cb |-> "none"]

\* clientPrev, serverPrev: how the previous build / reload attempt ended;
\* built: a 'bundled' event has happened; failedSinceBind: a reload failed
\* since a reloaded listener last finished binding.
NoHistory == [clientPrev |-> "none", built |-> FALSE, serverPrev |-> "none",
              serverPrevPrev |-> "none", failedSinceBind |-> FALSE]

\* op: the handler; file, ok: its inputs; calls: the calls it made, in order;
\* notice: it printed "Looks like the problem is fixed now"; pre, listener0,
\* problem0, stops0: the history, listener, lastProblemAt and stopPending
\* when it started.
NoHandler == [op |-> "none", file |-> <<>>, ok |-> TRUE, calls |-> <<>>,
              notice |-> FALSE, pre |-> NoHistory, listener0 |-> NoListener,
              problem0 |-> Null, stops0 |-> 0]

IsProduction == env.NODE_ENV = "production"

\* process.env.PORT || 5000
ListenPort == IF env.PORT = 0 THEN DefaultPort ELSE env.PORT

PublicSlash == <<"p","u","b","l","i","c","/">>

\* The first listing's watch callback: no filter at all.
IsPublic_NoFilter(filename) == FALSE

\* The pattern without its ^ anchor.
IsPublic_Unanchored(filename) ==
  \E i \in 1..Len(filename) :
    /\ i + 6 <= Len(filename)
    /\ SubSeq(filename, i, i + 6) = PublicSlash

\* filename.match(/^public\//)
IsPublic(filename) ==
  /\ Len(filename) >= 7
  /\ SubSeq(filename, 1, 7) = PublicSlash

\* A reload that forgets listener.destroy().
Destroy_Skip(l) == l

\* listener.destroy() of server-destroy: closes the server and its open
\* connections; a server closed before it was bound never emits 'listening'.
Destroy(l) == [l EXCEPT !.state = "destroyed"]

\* server.listen(process.env.PORT || 5000, cb): a listener that is binding.
Listen(version, cb) ==
  [state |-> "binding", version |-> version, port |-> ListenPort, cb |-> cb]

\* The listener accepts or is about to accept connections.
Live(l) == l.state \in {"binding", "bound"}

\* The notice without the lastProblemAt test.
ReloadNotice_Always(problemAt, isLoggingEnabled) == isLoggingEnabled

\* if (lastProblemAt !== null && options.isLoggingEnabled) in the callback
\* of the reload's server.listen
ReloadNotice(problemAt, isLoggingEnabled) ==
  problemAt # Null /\ isLoggingEnabled

\* if (lastProblemAt !== null) in the 'bundled' handler
BundledNotice(problemAt) == problemAt # Null

\* The calls gracefullyExit makes when it is entered.
ExitCalls ==
  IF bundler # "none" THEN <<"gracefullyExit", "bundler.stop">>
  ELSE <<"gracefullyExit", "process.exit">>

\* The first listing's process.exit() in place of gracefullyExit().
GracefullyExit_NoWait == exited' = TRUE /\ UNCHANGED stopPending

\* gracefullyExit(): with a bundler, call bundler.stop() and wait for it to
\* settle; without one, process.exit() at once.
GracefullyExit ==
  IF bundler # "none"
  THEN stopPending' = stopPending + 1 /\ UNCHANGED exited
  ELSE exited' = TRUE /\ UNCHANGED stopPending

Handler(op, file, ok, calls, notice) ==
  [op |-> op, file |-> file, ok |-> ok, calls |-> calls, notice |-> notice,
   pre |-> hist, listener0 |-> listener, problem0 |-> lastProblemAt,
   stops0 |-> stopPending]

\* A reload whose catch gives up like compileAndRun's catch does.
ReloadCatch_Exit ==
  /\ lastProblemAt' = now
  /\ GracefullyExit

\* A catch that reports the problem without recording it.
ReloadCatch_Forget == UNCHANGED <<lastProblemAt, stopPending, exited>>

\* catch (e) of the reload: record the problem and report it.
ReloadCatch ==
  /\ lastProblemAt' = now
  /\ UNCHANGED <<stopPending, exited>>

\* How many listeners are open once l has been destroyed.
OpenAfterDestroy(l) ==
  IF Live(l) /\ ~Live(Destroy(l)) THEN open - 1 ELSE open

\* The session before compileAndRun is called.
SessionStart ==
  /\ env \in [NODE_ENV : {"development", "production"},
              PORT : EnvPorts,
              isLoggingEnabled : BOOLEAN,
              outDirInSrc : BOOLEAN]
  /\ pc = "start"
  /\ tsc = "idle"
  /\ tscWatch = FALSE
  /\ dist = {"old"}
  /\ bundler = "none"
  /\ isFirstBuild = TRUE
  /\ clientProblemAt = Null
  /\ handlers = FALSE
  /\ watching = FALSE
  /\ server = 0
  /\ listener = NoListener
  /\ lastProblemAt = Null
  /\ open = 0
  /\ disk = 1
  /\ stopPending = 0
  /\ exited = FALSE
  /\ now = 1
  /\ hist = NoHistory
  /\ last = NoHandler
  /\ crashed = FALSE

\* A session: loadServer and the template injection are inputs of its
\* handlers (loadOk, tpl), their own state is left out.
Init ==
  /\ SessionStart
  /\ loader = NoLoader
  /\ injector = NoInjector

\* compile(): compileClient(options) runs up to its return (temp file, new
\* Bundler, handlers, bundler.bundle()), then compileServer(options) starts
\* tsc and compile awaits it.  A throw of FS.writeFileSync rejects compile(),
\* and compileAndRun's catch calls gracefullyExit.
Compile(cacheOk) ==
  /\ IF cacheOk
     THEN /\ bundler' = "active"
          /\ tsc' = "running"
          /\ pc' = "compile"
          /\ last' = Handler("compile", <<>>, TRUE,
                 <<"new Bundler", "bundler.bundle", "execa tsc">>, FALSE)
          /\ UNCHANGED <<stopPending, exited>>
     ELSE /\ pc' = "caught"
          /\ GracefullyExit
          /\ last' = Handler("compile", <<>>, FALSE, ExitCalls, FALSE)
          /\ UNCHANGED <<bundler, tsc>>
  /\ isFirstBuild' = TRUE
  /\ clientProblemAt' = Null
  /\ UNCHANGED <<crashed, loader, injector, env, tscWatch, handlers, watching, server, listener,
                 lastProblemAt, open, disk, now, hist>>

\* A compileAndRun that never cleans.
CompileAndRun_SkipClean(cacheOk) ==
  /\ pc = "start"
  /\ ~exited
  /\ ~crashed
  /\ Compile(cacheOk)
  /\ UNCHANGED dist

\* compileAndRun() up to its first await: in production compile() is called
\* at once, otherwise clean() starts FS.remove of the compiled path (unless
\* that path includes /src) and is awaited.
CompileAndRun(cacheOk) ==
  /\ pc = "start"
  /\ ~exited
  /\ ~crashed
  /\ IF IsProduction
     THEN Compile(cacheOk) /\ UNCHANGED dist
     ELSE /\ cacheOk
          /\ pc' = "clean"
          /\ last' = Handler("compileAndRun", <<>>, TRUE,
                 IF env.outDirInSrc THEN <<>> ELSE <<"FS.remove">>, FALSE)
          /\ UNCHANGED <<crashed, loader, injector, env, tsc, tscWatch, dist, bundler, isFirstBuild,
                         clientProblemAt, handlers, watching, server, listener,
                         lastProblemAt, open, disk, stopPending, exited, now, hist>>

\* clean() settles: the directory is gone and compile() is called, or
\* FS.remove rejected and compileAndRun's catch calls gracefullyExit.
CleanDone(ok, cacheOk) ==
  /\ pc = "clean"
  /\ ~exited
  /\ ~crashed
  /\ env.outDirInSrc => ok
  /\ IF ok
     THEN /\ dist' = IF env.outDirInSrc THEN dist ELSE {}
          /\ Compile(cacheOk)
     ELSE /\ cacheOk
          /\ pc' = "caught"
          /\ GracefullyExit
          /\ last' = Handler("clean", <<>>, FALSE, ExitCalls, FALSE)
          /\ UNCHANGED <<crashed, loader, injector, env, tsc, tscWatch, dist, bundler, isFirstBuild,
                         clientProblemAt, handlers, watching, server, listener,
                         lastProblemAt, open, disk, now, hist>>

\* The one-shot tsc exits.  then: spawn the detached tsc -w outside
\* production.  catch: report and call gracefullyExit(), which is not
\* awaited; the catch handler returns, so compileServer's promise fulfils.
TscExit(ok) ==
  /\ tsc = "running"
  /\ ~exited
  /\ ~crashed
  /\ IF ok
     THEN /\ tsc' = "ok"
          /\ tscWatch' = ~IsProduction
          /\ dist' = dist \cup {"server"}
          /\ last' = Handler("tscExit", <<>>, TRUE,
                 IF IsProduction THEN <<>> ELSE <<"execa tsc -w">>, FALSE)
          /\ UNCHANGED <<stopPending, exited>>
     ELSE /\ tsc' = "failed"
          /\ GracefullyExit
          /\ last' = Handler("tscExit", <<>>, FALSE, ExitCalls, FALSE)
          /\ UNCHANGED <<tscWatch, dist>>
  /\ UNCHANGED <<crashed, loader, injector, env, pc, bundler, isFirstBuild, clientProblemAt, handlers,
                 watching, server, listener, lastProblemAt, open, disk, now, hist>>

\* compile() has resolved and compileAndRun calls run(): register the
\* uncaughtException and stdin handlers, loadServer(); outside production
\* register the FS.watch callback and listen.  A throw of loadServer rejects
\* run()'s promise and compileAndRun's catch calls gracefullyExit.
Run(loadOk) ==
  /\ pc = "compile"
  /\ tsc \in {"ok", "failed"}
  /\ ~exited
  /\ ~crashed
  /\ handlers' = TRUE
  /\ IF loadOk
     THEN /\ pc' = "run"
          /\ server' = disk
          /\ watching' = ~IsProduction
          /\ listener' = IF IsProduction THEN listener
                         ELSE Listen(disk, "initial")
          /\ open' = IF IsProduction THEN open ELSE open + 1
          /\ last' = Handler("run", <<>>, TRUE,
                 IF IsProduction THEN <<"loadServer">>
                 ELSE <<"loadServer", "FS.watch", "listen">>, FALSE)
          /\ UNCHANGED <<stopPending, exited>>
     ELSE /\ pc' = "caught"
          /\ GracefullyExit
          /\ last' = Handler("run", <<>>, FALSE,
                 <<"loadServer">> \o ExitCalls, FALSE)
          /\ UNCHANGED <<server, watching, listener, open>>
  /\ UNCHANGED <<crashed, loader, injector, env, tsc, tscWatch, dist, bundler, isFirstBuild,
                 clientProblemAt, lastProblemAt, disk, now, hist>>

\* A pending bundler.stop() settles.  Fulfilled: gracefullyExit goes on to
\* process.exit().  Rejected: gracefullyExit rejects and nothing exits.
StopSettled(ok) ==
  /\ stopPending > 0
  /\ ~exited
  /\ ~crashed
  /\ stopPending' = stopPending - 1
  /\ IF ok
     THEN /\ bundler' = "stopped"
          /\ exited' = TRUE
          /\ last' = Handler("stopSettled", <<>>, TRUE, <<"process.exit">>, FALSE)
     ELSE /\ last' = Handler("stopSettled", <<>>, FALSE, <<>>, FALSE)
          /\ UNCHANGED <<bundler, exited>>
  /\ UNCHANGED <<crashed, loader, injector, env, pc, tsc, tscWatch, dist, isFirstBuild, clientProblemAt,
                 handlers, watching, server, listener, lastProblemAt, open,
                 disk, now, hist>>

\* bundler.on('bundled'): print the notice and clear lastProblemAt if a
\* problem was recorded; with an entry asset, loadServer for the views path,
\* read the template, inject, guard, write it and end the first build.  A
\* throw while reading or guarding leaves the handler before the write.
Bundled(entryAsset, tpl) ==
  /\ bundler = "active"
  /\ ~exited
  /\ ~crashed
  /\ now <= MaxEvents
  /\ ~entryAsset => tpl = "ok"
  /\ now' = now + 1
  /\ clientProblemAt' = Null
  /\ IF entryAsset /\ tpl = "ok"
     THEN /\ dist' = dist \cup {"client", "template"}
          /\ isFirstBuild' = FALSE
     ELSE /\ dist' = dist \cup {"client"}
          /\ UNCHANGED isFirstBuild
  /\ hist' = [hist EXCEPT !.clientPrev = "ok", !.built = TRUE]
  /\ last' = Handler("bundled", <<>>, entryAsset /\ tpl = "ok",
         IF ~entryAsset THEN <<>>
         ELSE IF tpl = "missing" THEN <<"loadServer", "readFile">>
         ELSE IF tpl = "plain" THEN <<"loadServer", "readFile", "match">>
         ELSE <<"loadServer", "readFile", "match", "writeFile">>,
         BundledNotice(clientProblemAt))
  /\ UNCHANGED <<crashed, loader, injector, env, pc, tsc, tscWatch, bundler, handlers, watching, server,
                 listener, lastProblemAt, open, disk, stopPending, exited>>

\* bundler.on('buildError'): record the problem, report it, and on the
\* first build call gracefullyExit.
BuildError ==
  /\ bundler = "active"
  /\ ~exited
  /\ ~crashed
  /\ now <= MaxEvents
  /\ now' = now + 1
  /\ clientProblemAt' = now
  /\ IF isFirstBuild
     THEN /\ GracefullyExit
          /\ last' = Handler("buildError", <<>>, FALSE, ExitCalls, FALSE)
     ELSE /\ last' = Handler("buildError", <<>>, FALSE, <<>>, FALSE)
          /\ UNCHANGED <<stopPending, exited>>
  /\ hist' = [hist EXCEPT !.clientPrev = "fail"]
  /\ UNCHANGED <<crashed, loader, injector, env, pc, tsc, tscWatch, dist, bundler, isFirstBuild, handlers,
                 watching, server, listener, lastProblemAt, open, disk>>

\* The FS.watch callback, for a change of a file under the server path.
\* Changes under public/ return at once.  Otherwise destroy the listener,
\* loadServer, and listen again; a throw of loadServer is caught and
\* recorded in lastProblemAt.
OnChange(filename, loadOk) ==
  /\ watching
  /\ ~exited
  /\ ~crashed
  /\ now <= MaxEvents
  /\ now' = now + 1
  /\ IF IsPublic(filename)
     THEN /\ loadOk
          /\ last' = Handler("change", filename, TRUE, <<>>, FALSE)
          /\ UNCHANGED <<server, listener, lastProblemAt, open, disk, hist,
                         stopPending, exited>>
     ELSE /\ disk' = disk + 1
          /\ IF loadOk
             THEN /\ server' = disk'
                  /\ listener' = Listen(disk', "reload")
                  /\ open' = OpenAfterDestroy(listener) + 1
                  /\ last' = Handler("change", filename, TRUE,
                         <<"destroy", "loadServer", "listen">>, FALSE)
                  /\ hist' = [hist EXCEPT !.serverPrev = "ok",
                                          !.serverPrevPrev = hist.serverPrev]
                  /\ UNCHANGED <<lastProblemAt, stopPending, exited>>
             ELSE /\ listener' = Destroy(listener)
                  /\ open' = OpenAfterDestroy(listener)
                  /\ ReloadCatch
                  /\ last' = Handler("change", filename, FALSE,
                         <<"destroy", "loadServer">>, FALSE)
                  /\ hist' = [hist EXCEPT !.serverPrev = "fail",
                                          !.serverPrevPrev = hist.serverPrev,
                                          !.failedSinceBind = TRUE]
                  /\ UNCHANGED server
  /\ UNCHANGED <<crashed, loader, injector, env, pc, tsc, tscWatch, dist, bundler, isFirstBuild,
                 clientProblemAt, handlers, watching>>

\* The callback of server.listen: the listener is bound.  The reload's
\* callback prints the notice if a problem was recorded and logging is on,
\* and clears lastProblemAt; the first listen's callback only reports.
Listening ==
  /\ listener.state = "binding"
  /\ ~exited
  /\ ~crashed
  /\ listener' = [listener EXCEPT !.state = "bound"]
  /\ IF listener.cb = "reload"
     THEN /\ lastProblemAt' = Null
          /\ hist' = [hist EXCEPT !.failedSinceBind = FALSE]
          /\ last' = Handler("listening", <<>>, TRUE, <<>>,
                 ReloadNotice(lastProblemAt, env.isLoggingEnabled))
     ELSE /\ last' = Handler("listeningFirst", <<>>, TRUE, <<>>, FALSE)
          /\ UNCHANGED <<lastProblemAt, hist>>
  /\ UNCHANGED <<crashed, loader, injector, env, pc, tsc, tscWatch, dist, bundler, isFirstBuild,
                 clientProblemAt, handlers, watching, server, open, disk,
                 stopPending, exited, now>>

\* process.stdin.on('data'): Ctrl-C or q calls gracefullyExit.
Key(d) ==
  /\ handlers
  /\ ~exited
  /\ ~crashed
  /\ stopPending < MaxPending
  /\ IF d.byte = CtrlC \/ d.isQ
     THEN /\ GracefullyExit
          /\ last' = Handler("key", <<>>, TRUE, ExitCalls, FALSE)
     ELSE /\ last' = Handler("key", <<>>, FALSE, <<>>, FALSE)
          /\ UNCHANGED <<stopPending, exited>>
  /\ UNCHANGED <<crashed, loader, injector, env, pc, tsc, tscWatch, dist, bundler, isFirstBuild,
                 clientProblemAt, handlers, watching, server, listener,
                 lastProblemAt, open, disk, now, hist>>

\* process.on('uncaughtException'): report and call gracefullyExit.  The
\* handler exists once run() has been called.
UncaughtException ==
  /\ handlers
  /\ ~exited
  /\ ~crashed
  /\ stopPending < MaxPending
  /\ GracefullyExit
  /\ last' = Handler("uncaughtException", <<>>, FALSE, ExitCalls, FALSE)
  /\ UNCHANGED <<crashed, loader, injector, env, pc, tsc, tscWatch, dist, bundler, isFirstBuild,
                 clientProblemAt, handlers, watching, server, listener,
                 lastProblemAt, open, disk, now, hist>>

\* An exception nobody catches while clean or compile is under way: run()
\* has not registered the uncaughtException handler yet, so Node reports
\* the exception and ends the process; gracefullyExit is not called.
Crash ==
  /\ pc \in {"clean", "compile"}
  /\ ~handlers
  /\ ~exited
  /\ ~crashed
  /\ crashed' = TRUE
  /\ last' = Handler("fault", <<>>, FALSE, <<>>, FALSE)
  /\ UNCHANGED <<loader, injector, env, pc, tsc, tscWatch, dist, bundler,
                 isFirstBuild, clientProblemAt, handlers, watching, server,
                 listener, lastProblemAt, open, disk, stopPending, exited,
                 now, hist>>

Next ==
  \/ \E cacheOk \in BOOLEAN : CompileAndRun(cacheOk)
  \/ \E ok \in BOOLEAN, cacheOk \in BOOLEAN : CleanDone(ok, cacheOk)
  \/ \E ok \in BOOLEAN : TscExit(ok)
  \/ \E loadOk \in BOOLEAN : Run(loadOk)
  \/ \E ok \in BOOLEAN : StopSettled(ok)
  \/ \E entryAsset \in BOOLEAN, tpl \in Templates : Bundled(entryAsset, tpl)
  \/ BuildError
  \/ \E filename \in Filenames, loadOk \in BOOLEAN : OnChange(filename, loadOk)
  \/ Listening
  \/ \E d \in Keys : Key(d)
  \/ UncaughtException
  \/ Crash

Spec == Init /\ [][Next]_vars

\* ------------------------------------------------- loadServer (util.ts)
\* How many times the compiled server files are rewritten.
MaxWrites == 2

\* Strings are sequences of characters.
\* s.indexOf(t): the first position where t occurs in s, 0 if nowhere.
IndexOf(s, t) ==
  LET hits == {i \in 1..(Len(s) - Len(t) + 1) :
                 SubSeq(s, i, i + Len(t) - 1) = t}
  IN IF hits = {} THEN 0 ELSE CHOOSE i \in hits : \A j \in hits : i <= j

\* s.includes(t)
Includes(s, t) == IndexOf(s, t) # 0

\* s.replace(t, r) with a string pattern: the first occurrence only.
Replace(s, t, r) ==
  LET i == IndexOf(s, t)
  IN IF i = 0 THEN s
     ELSE SubSeq(s, 1, i - 1) \o r \o SubSeq(s, i + Len(t), Len(s))

\* Path.join(a, b) of two clean segments.
Join(a, b) == a \o <<"/">> \o b

\* options.rootPath
RootPath == <<"/","r">>
IndexJs == <<"i","n","d","e","x",".","j","s">>
\* Path.sep + 'index.js'
SepIndexJs == <<"/">> \o IndexJs
DistDir == <<"d","i","s","t">>
\* "main" of package.json: a directory with index.js, or a single file.
MainIndex == <<"d","/","i","n","d","e","x",".","j","s">>
MainFile == <<"d","/","s",".","j","s">>
Mains == {MainIndex, MainFile}
\* A module the entry module requires, next to it.
DepFile == <<"d","/","x",".","j","s">>
DepPath == Join(RootPath, DepFile)

\* What a compiled entry module can export: module.exports and its default.
\*   kind: "object" or "null"; listen: typeof exports.listen;
\*   default: what exports.default is.
App == [kind |-> "object", listen |-> "function", default |-> "undefined"]
NoListen == [kind |-> "object", listen |-> "undefined", default |-> "undefined"]
NullValue == [kind |-> "null", listen |-> "undefined", default |-> "undefined"]
ModuleExports ==
  {App, NoListen, NullValue,
   [kind |-> "object", listen |-> "number", default |-> "undefined"],
   [kind |-> "object", listen |-> "undefined", default |-> "app"],
   [kind |-> "object", listen |-> "undefined", default |-> "noListen"],
   [kind |-> "object", listen |-> "function", default |-> "noListen"],
   [kind |-> "object", listen |-> "undefined", default |-> "null"]}

\* Error messages, word by word.
NotFoundMessage == <<"Cannot", "find", "module">>
ModuleThrewMessage == <<"boom">>
ShapeMessage ==
  <<"serverPath", "exists", "but", "does", "not", "respond", "to", "listen">>
NullDefaultMessage == <<"Cannot", "read", "property", "default", "of", "null">>
NullListenMessage == <<"Cannot", "read", "property", "listen", "of", "null">>

Thrown(message, logged) ==
  [kind |-> "thrown", message |-> message, logged |-> logged,
   value |-> NullValue, v |-> 0, depV |-> 0]
Returned(value, v, depV) ==
  [kind |-> "returned", message |-> <<>>, logged |-> FALSE,
   value |-> value, v |-> v, depV |-> depV]
NoResult ==
  [kind |-> "none", message |-> <<>>, logged |-> FALSE,
   value |-> NullValue, v |-> 0, depV |-> 0]

\* The entry file pkg.main names.
EntryPath(l) == Join(RootPath, l.main)

\* FS.existsSync(path)
ExistsSync(l, path) ==
  \/ path = EntryPath(l) /\ l.entryExists
  \/ path = DepPath

\* guessServerPath: require(rootPath/package.json) throws when the root is
\* not there; a main that does not exist gives rootPath/dist; otherwise the
\* main path with /index.js cut out.
GuessServerPath(l) ==
  IF ~l.rootExists THEN [ok |-> FALSE, path |-> <<>>]
  ELSE LET path == Join(RootPath, l.main)
       IN IF ~ExistsSync(l, path)
          THEN [ok |-> TRUE, path |-> Join(RootPath, DistDir)]
          ELSE [ok |-> TRUE, path |-> Replace(path, SepIndexJs, <<>>)]

\* A purge that deletes the entry for the target only.
ClearRequireCache_ExactKey(cache, target) ==
  [key \in {k \in DOMAIN cache : k # target} |-> cache[key]]

\* clearRequireCache(target): delete every key that includes target.
ClearRequireCache(cache, target) ==
  [key \in {k \in DOMAIN cache : ~Includes(k, target)} |-> cache[key]]

\* The file require(path) resolves to: the file itself, or index.js in the
\* directory; <<>> when there is neither.
Resolve(l, path) ==
  IF ExistsSync(l, path) THEN path
  ELSE IF ExistsSync(l, Join(path, IndexJs)) THEN Join(path, IndexJs)
  ELSE <<>>

\* require(path) with the cache as it is: a cached module is returned as it
\* was cached; a module not in the cache is read from disk and evaluated,
\* which requires DepFile the same way, and both are cached.
Require(l, cache, path) ==
  LET key == Resolve(l, path)
      depV == IF DepPath \in DOMAIN cache THEN cache[DepPath].v ELSE l.depV
      fresh == [exports |-> l.exports, v |-> l.entryV, depV |-> depV]
      dep == [exports |-> NullValue, v |-> depV, depV |-> 0]
  IN IF key = <<>>
     THEN [ok |-> FALSE, message |-> NotFoundMessage, cache |-> cache]
     ELSE IF key \in DOMAIN cache
     THEN [ok |-> TRUE, module |-> cache[key], cache |-> cache]
     ELSE IF l.throws
     THEN [ok |-> FALSE, message |-> ModuleThrewMessage, cache |-> cache]
     ELSE [ok |-> TRUE, module |-> fresh,
           cache |-> [k \in DOMAIN cache \cup {key, DepPath} |->
                        IF k = key THEN fresh
                        ELSE IF k = DepPath THEN dep ELSE cache[k]]]

\* if (typeof server.default !== 'undefined') server = server.default
Unwrap(exports) ==
  IF exports.default = "undefined" THEN exports
  ELSE IF exports.default = "app" THEN App
  ELSE IF exports.default = "noListen" THEN NoListen
  ELSE NullValue

\* A check that takes any listen property for a listen function.
RespondsToListen_Defined(value) == value.listen # "undefined"

\* typeof server.listen === 'function'
RespondsToListen(value) == value.listen = "function"

\* loadServer(options): the result and the require cache it leaves.
LoadServer(l, isLoggingEnabled) ==
  LET g == GuessServerPath(l)
      purged == ClearRequireCache(l.cache, g.path)
      r == Require(l, purged, g.path)
      handle == Unwrap(r.module.exports)
  IN IF ~g.ok
     THEN [result |-> Thrown(NotFoundMessage, FALSE), cache |-> l.cache]
     ELSE IF ~r.ok
     THEN [result |-> Thrown(r.message, isLoggingEnabled), cache |-> r.cache]
     ELSE IF r.module.exports.kind = "null"
     THEN [result |-> Thrown(NullDefaultMessage, FALSE), cache |-> r.cache]
     ELSE IF handle.kind = "null"
     THEN [result |-> Thrown(NullListenMessage, FALSE), cache |-> r.cache]
     ELSE IF ~RespondsToListen(handle)
     THEN [result |-> Thrown(ShapeMessage, isLoggingEnabled),
           cache |-> r.cache]
     ELSE [result |-> Returned(handle, r.module.v, r.module.depV),
           cache |-> r.cache]

\* The project on disk before the first call: any root, main and entry
\* module, nothing required yet.
InitLoad ==
  /\ SessionStart
  /\ env.NODE_ENV = "development" /\ env.PORT = 0 /\ ~env.outDirInSrc
  /\ loader \in [on : {TRUE}, rootExists : BOOLEAN, main : Mains,
                 entryExists : BOOLEAN, exports : ModuleExports,
                 throws : BOOLEAN, entryV : {1}, depV : {1},
                 cache : {<<>>}, result : {NoResult}, op : {"none"},
                 stale : {FALSE}]
  /\ injector = NoInjector

\* A caller calls loadServer(options).  stale: the cache held, when the call
\* started, an entry module older than the one on disk.
LoadServerCall ==
  LET out == LoadServer(loader, env.isLoggingEnabled)
      key == Resolve(loader, GuessServerPath(loader).path)
  IN /\ loader' = [loader EXCEPT
                     !.result = out.result, !.cache = out.cache, !.op = "load",
                     !.stale = /\ key \in DOMAIN loader.cache
                               /\ \/ loader.cache[key].v < loader.entryV
                                  \/ loader.cache[key].depV < loader.depV]
     /\ UNCHANGED <<session, injector>>

\* The compiler rewrites the entry module.
WriteEntry(exports, throws) ==
  /\ loader.entryV <= MaxWrites
  /\ loader' = [loader EXCEPT !.entryExists = TRUE, !.exports = exports,
                              !.throws = throws, !.entryV = @ + 1,
                              !.op = "write"]
  /\ UNCHANGED <<session, injector>>

\* The compiler rewrites the module the entry requires.
WriteDep ==
  /\ loader.depV <= MaxWrites
  /\ loader' = [loader EXCEPT !.depV = @ + 1, !.op = "write"]
  /\ UNCHANGED <<session, injector>>

NextLoad ==
  \/ LoadServerCall
  \/ \E exports \in ModuleExports, throws \in BOOLEAN :
       WriteEntry(exports, throws)
  \/ WriteDep

SpecLoad == InitLoad /\ [][NextLoad]_vars

\* ------------------------------- template injection ('bundled' handler)
\* How many pieces (placeholder, text, </body>, line break) a template has.
MaxPieces == 3
\* How many 'bundled' events follow one another.
MaxPasses == 2

\* Template text is a sequence of lexical atoms: "<%=" stands for the
\* characters "<%= ", "%>" for " %>", "<%" for "<% ", "nl" for a line break.
PlaceholderA == <<"<%=", "a", "%>">>
PlaceholderB == <<"<%=", "b", "%>">>
BodyEnd == <<"</body>">>
Pieces == {PlaceholderA, PlaceholderB, BodyEnd, <<"x">>, <<"nl">>}

\* The templates of at most n pieces.
RECURSIVE TemplatesOf(_)
TemplatesOf(n) ==
  IF n = 0 THEN {<<>>}
  ELSE LET shorter == TemplatesOf(n - 1)
       IN shorter \cup {text \o piece : text \in shorter, piece \in Pieces}

\* bundle.entryAsset.generated.html
BundleHtmls == {<<"script1">>, <<"script2">>}

\* The first position of a line break at or after i, Len(c) + 1 if none.
LineEnd(c, i) ==
  LET breaks == {j \in i..Len(c) : c[j] = "nl"}
  IN IF breaks = {} THEN Len(c) + 1
     ELSE CHOOSE j \in breaks : \A k \in breaks : j <= k

\* htmlContent.match(/\<\%\= (.*) \%\>/g) from position i on: . does not
\* match a line break and * is greedy, so a line gives at most one match,
\* from its first "<%= " to the last " %>" after it.
RECURSIVE MatchesFrom(_, _)
MatchesFrom(c, i) ==
  IF i > Len(c) THEN <<>>
  ELSE LET e == LineEnd(c, i)
           starts == {j \in i..(e - 1) : c[j] = "<%="}
           first == CHOOSE j \in starts : \A k \in starts : j <= k
           ends == {j \in (first + 1)..(e - 1) : c[j] = "%>"}
           last_ == CHOOSE j \in ends : \A k \in ends : j >= k
       IN IF starts = {} \/ ends = {} THEN MatchesFrom(c, e + 1)
          ELSE <<SubSeq(c, first, last_)>> \o MatchesFrom(c, e + 1)

\* match.match(/\<\%\= (.*) \%\>/)[1]
Word(match) == SubSeq(match, 2, Len(match) - 1)

\* `<% if (typeof ${word} !== "undefined") { %>${match}<% } %>`
Guard(match) ==
  <<"<%", "if">> \o Word(match) \o <<"{", "%>">> \o match \o <<"<%", "}", "%>">>

\* .forEach(match => htmlContent = htmlContent.replace(match, guard)): one
\* replace per match, each on the text the replaces before it left.
RECURSIVE GuardEach(_, _)
GuardEach(c, matches) ==
  IF matches = <<>> THEN c
  ELSE GuardEach(Replace(c, Head(matches), Guard(Head(matches))),
                 Tail(matches))

\* Lines 345-352: insert the bundle markup before the first </body>, then
\* guard the placeholders; match() gives null when there is none, and
\* null.forEach throws a TypeError.
Inject(text, html) ==
  LET withScript == Replace(text, BodyEnd, html \o BodyEnd)
      matches == MatchesFrom(withScript, 1)
  IN IF matches = <<>> THEN [threw |-> TRUE, text |-> <<>>]
     ELSE [threw |-> FALSE, text |-> GuardEach(withScript, matches)]

\* options.rootPath: a project under /r, and one under /src/r.
SrcRoot == <<"/","s","r","c","/","r">>
Roots == {RootPath, SrcRoot}
SrcName == <<"s","r","c">>
\* Path.join(options.rootPath, 'src', 'server', 'views')
SrcViews(root) == Join(root, <<"s","r","c","/","s","e","r","v","e","r","/","v","i","e","w","s">>)
\* Path.join(compiledPath, 'public')
PublicDir(root) == Join(root, <<"d","i","s","t","/","p","u","b","l","i","c">>)
\* What app.get('views') of the loaded server lists.
ViewsLists(root) ==
  {<<PublicDir(root), SrcViews(root)>>, <<SrcViews(root), PublicDir(root)>>,
   <<PublicDir(root)>>}

\* .find(v => v.includes('src')): the first such entry, <<>> (undefined)
\* when there is none.
FindSrc(views) ==
  LET hits == {i \in 1..Len(views) : Includes(views[i], SrcName)}
  IN IF hits = {} THEN <<>>
     ELSE views[CHOOSE i \in hits : \A j \in hits : i <= j]

\* Lines 334-341: the views path; the default stands when loadServer (or
\* what is called on its result) throws.
ViewsPath(i) ==
  IF i.loadOk THEN FindSrc(i.views) ELSE SrcViews(i.root)

\* 'index.html.ejs'
IndexHtmlEjs == <<"i","n","d","e","x",".","h","t","m","l",".","e","j","s">>

\* Path.join(viewsPath, 'index.html.ejs'); <<>> when viewsPath is undefined
\* and Path.join throws.
TemplatePath(i) ==
  IF ViewsPath(i) = <<>> THEN <<>> ELSE Join(ViewsPath(i), IndexHtmlEjs)

\* options.templateFile (util.ts, CompilerOptions): unset by default; a
\* caller may set it to a file that exists or to one that does not.
NoTemplateFile == [set |-> FALSE, exists |-> FALSE]
TemplateFileOptions ==
  {NoTemplateFile, [set |-> TRUE, exists |-> TRUE],
   [set |-> TRUE, exists |-> FALSE]}
\* The path a caller gives in options.templateFile.
ExplicitPath(root) == Join(root, <<"t",".","e","j","s">>)

NoFile == [exists |-> FALSE, text |-> <<>>]
File(text) == [exists |-> TRUE, text |-> text]

\* The file FS.readFileSync(Path.join(viewsPath, 'index.html.ejs')) reads.
TemplateFile(i) ==
  IF ViewsPath(i) = SrcViews(i.root) THEN i.src
  ELSE IF ViewsPath(i) = PublicDir(i.root) THEN i.out
  ELSE NoFile

\* What an earlier session left in the compiled public directory.
OldOutput(src, html) ==
  IF src.exists /\ ~Inject(src.text, html).threw
  THEN File(Inject(src.text, html).text)
  ELSE NoFile

\* The project before the first 'bundled' event: a source template or
\* none, the compiled template of an earlier session or none.
InitInject ==
  /\ SessionStart
  /\ env.NODE_ENV = "development" /\ env.PORT = 0 /\ ~env.outDirInSrc
  /\ env.isLoggingEnabled
  /\ loader = NoLoader
  /\ \E root \in Roots, text \in TemplatesOf(MaxPieces),
        srcExists \in BOOLEAN, outExists \in BOOLEAN, loadOk \in BOOLEAN,
        templateFile \in TemplateFileOptions :
       \E views \in ViewsLists(root) :
         LET src == IF srcExists THEN File(text) ELSE NoFile
         IN /\ ~srcExists => text = <<>>
            /\ injector =
                 [on |-> TRUE, root |-> root, views |-> views,
                  loadOk |-> loadOk, src |-> src,
                  templateFile |-> templateFile, readPath |-> <<>>,
                  out |-> IF outExists THEN OldOutput(src, <<"script1">>)
                          ELSE NoFile,
                  passes |-> 0, html |-> <<>>, html0 |-> <<>>,
                  read |-> NoFile, read0 |-> NoFile, threw |-> FALSE,
                  threw0 |-> FALSE, wrote |-> FALSE, out0 |-> NoFile]

\* bundler.on('bundled') with an entry asset, lines 332-354, on the files:
\* read the template, inject, guard, write.  options.templateFile is not
\* read anywhere.  readPath, read, threw, wrote: what this pass read and how
\* it ended; html0, read0, threw0, out0: the bundle
\* markup, the read and the end of the pass before, and the output it left.
BundledInject(html) ==
  LET file == TemplateFile(injector)
      done == Inject(file.text, html)
      ok == ViewsPath(injector) # <<>> /\ file.exists /\ ~done.threw
  IN /\ injector.passes < MaxPasses
     /\ injector' = [injector EXCEPT
                       !.passes = @ + 1,
                       !.html = html, !.html0 = injector.html,
                       !.read = file, !.read0 = injector.read,
                       !.readPath = TemplatePath(injector),
                       !.threw = ~ok, !.threw0 = injector.threw,
                       !.wrote = ok,
                       !.out0 = injector.out,
                       !.out = IF ok THEN File(done.text) ELSE @]
     /\ UNCHANGED <<session, loader>>

NextInject == \E html \in BundleHtmls : BundledInject(html)

SpecInject == InitInject /\ [][NextInject]_vars

\* ---------------------------------------------------------------- claims

\* The last handler called c.
Called(c) == \E i \in 1..Len(last.calls) : last.calls[i] = c

\* The last handler was a reload cycle: a change event that passed the filter.
Reloaded == last.op = "change" /\ last.calls # <<>>

\* The sample paths under public/ and the ones that are not.
UnderPublic == {PublicBundle, PublicDeep}
NotUnderPublic == {ServerRoutes, Publicity, NestedPublic}

\* C1, as claimed: the client bundling step (bundler created, bundle()
\* called) is never started before the one-shot tsc has completed.
C1_ClientAfterServerCompile ==
  bundler # "none" => tsc = "ok"

\* C2, as claimed: at most one listener is open, and no reload cycle starts
\* while the listener of the previous reload cycle is still binding.
C2_ReloadsSerialized ==
  /\ open <= 1
  /\ Reloaded =>
       ~(last.listener0.state = "binding" /\ last.listener0.cb = "reload")

\* C3: once a reload has failed on loadServer, and until the next reload,
\* no listener is open or binding and lastProblemAt is set; the failing
\* reload itself stamps lastProblemAt with the time of the failure.
C3_FailedReloadLeavesListenerDown ==
  /\ hist.serverPrev = "fail" =>
       /\ ~Live(listener)
       /\ open = 0
       /\ lastProblemAt # Null
  /\ (Reloaded /\ ~last.ok) =>
       /\ lastProblemAt = now - 1
       /\ listener.version = last.listener0.version

C3_Witness ==
  /\ Reloaded /\ ~last.ok
  /\ last.listener0.state = "bound"
  /\ hist.serverPrev = "fail"

\* C4, as claimed: in both loops a successful attempt prints the notice
\* exactly when the attempt before it failed (for a reload, when its
\* listener is bound).
C4_NoticeIffPreviousAttemptFailed ==
  /\ last.op = "bundled" => (last.notice <=> last.pre.clientPrev = "fail")
  /\ last.op = "listening" =>
       (last.notice <=> last.pre.serverPrevPrev = "fail")

\* C4, amended: a 'bundled' event prints the notice exactly when the build
\* event before it was a buildError; a reloaded listener that finishes
\* binding prints it exactly when logging is enabled and a reload has failed
\* since a reloaded listener last finished binding; nothing else prints it.
C4_NoticeOnFirstBindAfterFailure ==
  /\ last.op = "bundled" => (last.notice <=> last.pre.clientPrev = "fail")
  /\ last.op = "listening" =>
       (last.notice <=> (env.isLoggingEnabled /\ last.pre.failedSinceBind))
  /\ last.notice => last.op \in {"bundled", "listening"}

C4_Witness ==
  /\ last.op = "listening"
  /\ last.notice
  /\ last.pre.serverPrevPrev = "fail"

\* C5, as claimed: a buildError calls gracefullyExit exactly when no client
\* build has succeeded before it.
C5_TeardownIffNoBuildYet ==
  last.op = "buildError" => (Called("gracefullyExit") <=> ~last.pre.built)

\* C6, as claimed: after a failed server compile run() is never entered: no
\* handlers are registered, no server is loaded, no listener is opened.
C6_NoRunAfterFailedCompile ==
  tsc = "failed" =>
    /\ pc = "compile"
    /\ ~handlers
    /\ server = 0
    /\ listener.state = "none"

C8_LoadFailureFatalOnlyOnFirstLoad ==
  /\ last.op = "change" =>
       /\ ~exited
       /\ stopPending = last.stops0
       /\ watching
  /\ (last.op = "run" /\ ~last.ok) =>
       /\ pc = "caught"
       /\ Called("gracefullyExit")
       /\ exited \/ stopPending = last.stops0 + 1
       /\ ~watching
       /\ open = 0

C8_Witness ==
  /\ Reloaded /\ ~last.ok
  /\ last.pre.serverPrev = "fail"
  /\ ~exited
  /\ ~crashed

\* C9: a change event for a path under public/ makes no call and leaves the
\* listener, lastProblemAt and the record of reload attempts as they were.
C9_PublicChangeIgnored ==
  (last.op = "change" /\ last.file \in UnderPublic) =>
    /\ last.calls = <<>>
    /\ listener = last.listener0
    /\ lastProblemAt = last.problem0
    /\ hist = last.pre

C9_Witness ==
  /\ last.op = "change"
  /\ last.file = PublicBundle
  /\ listener.state = "bound"

\* C10: a change event for a path not under public/ makes exactly the calls
\* destroy, loadServer and, if the load succeeded, listen, in this order;
\* after a successful load exactly one listener is open, binding on the
\* configured port, the port of the listener before it, with the version on
\* disk; the event is recorded as exactly one reload attempt.
C10_ChangeTriggersOneReload ==
  (last.op = "change" /\ last.file \in NotUnderPublic) =>
    /\ last.calls = <<"destroy", "loadServer">>
                      \o (IF last.ok THEN <<"listen">> ELSE <<>>)
    /\ open = (IF last.ok THEN 1 ELSE 0)
    /\ hist.serverPrev = (IF last.ok THEN "ok" ELSE "fail")
    /\ hist.serverPrevPrev = last.pre.serverPrev
    /\ last.ok =>
         /\ listener.state = "binding"
         /\ listener.cb = "reload"
         /\ listener.port = ListenPort
         /\ listener.port = last.listener0.port
         /\ listener.version = disk
         /\ server = disk

C10_Witness ==
  /\ last.op = "change"
  /\ last.file = ServerRoutes
  /\ last.ok
  /\ last.listener0.state = "bound"

\* The error message holds the word w.
MessageHas(message, w) == \E i \in 1..Len(message) : message[i] = w

\* The entry module is on disk, loads, and what it exports (its default, if
\* it has one) is an object.
ExportsObject ==
  /\ loader.rootExists
  /\ Resolve(loader, GuessServerPath(loader).path) # <<>>
  /\ ~loader.throws
  /\ loader.exports.kind = "object"
  /\ Unwrap(loader.exports).kind = "object"

\* C11: loadServer returns a handle only when the module was imported and
\* the value has a listen function: every returned value has one; on a root
\* path that does not exist the call fails with the load error; on a module
\* exporting an object without a listen function it fails with an error
\* whose message contains "listen".
C11_LoadServerReturnsOnlyListeners ==
  loader.on /\ loader.op = "load" =>
    /\ loader.result.kind \in {"returned", "thrown"}
    /\ loader.result.kind = "returned" =>
         /\ ExportsObject
         /\ loader.result.value.listen = "function"
    /\ ~loader.rootExists =>
         /\ loader.result.kind = "thrown"
         /\ loader.result.message = NotFoundMessage
    /\ ExportsObject /\ Unwrap(loader.exports).listen # "function" =>
         /\ loader.result.kind = "thrown"
         /\ MessageHas(loader.result.message, "listen")

\* A module whose listen property is not a function was loaded and refused.
C11_Witness ==
  /\ loader.on /\ loader.op = "load"
  /\ ExportsObject
  /\ Unwrap(loader.exports).listen = "number"
  /\ loader.result.kind = "thrown"
  /\ loader.result.message = ShapeMessage

\* The path lies under the server path loadServer purges and requires.
UnderServerPath(path) ==
  LET target == GuessServerPath(loader).path
  IN /\ Len(path) >= Len(target)
     /\ SubSeq(path, 1, Len(target)) = target

\* C12: whatever the compiler rewrote between the calls, the handle a
\* loadServer call returns was evaluated from the entry module as it is on
\* disk at the call, and so was every module under the server path that the
\* entry requires: no cached version is returned.
C12_LoadServerReturnsDiskVersion ==
  loader.on /\ loader.op = "load" /\ loader.result.kind = "returned" =>
    /\ loader.result.v = loader.entryV
    /\ UnderServerPath(DepPath) => loader.result.depV = loader.depV

\* A call found older versions of the entry and of the module it requires
\* in the cache and returned the rewritten ones.
C12_Witness ==
  /\ loader.on /\ loader.op = "load" /\ loader.result.kind = "returned"
  /\ loader.stale
  /\ UnderServerPath(DepPath)
  /\ loader.result.v = loader.entryV /\ loader.entryV > 1
  /\ loader.result.depV = loader.depV /\ loader.depV > 1

\* How many times the atom occurs in the text.
Count(c, atom) == Cardinality({j \in 1..Len(c) : c[j] = atom})

\* How many guards are open just before position j: guard openings
\* ("<% if") minus guard closings ("<% }") that start before j.
Depth(c, j) ==
  Cardinality({k \in 1..(j - 1) : c[k] = "if"})
    - Cardinality({k \in 1..(j - 1) : c[k] = "}"})

\* The last pass read the source template and wrote its output.
InjectedSource ==
  /\ injector.on /\ injector.passes > 0 /\ injector.wrote
  /\ injector.read = injector.src

\* C13, as claimed: after an injection pass every placeholder occurrence is
\* wrapped by exactly one guard, no guard lies inside another, and there is
\* one guard per placeholder of the template (two placeholders give two
\* guards, each wrapping one of them).
C13_EachPlaceholderGuardedOnce ==
  InjectedSource =>
    LET text == injector.out.text
    IN /\ \A j \in 1..Len(text) : Depth(text, j) \in {0, 1}
       /\ \A j \in 1..Len(text) : text[j] = "<%=" => Depth(text, j) = 1
       /\ Count(text, "if") = Count(injector.read.text, "<%=")

\* C15, as claimed: on a template without any placeholder the guard step is
\* a no-op: the pass raises no error and writes the template with the
\* bundle markup inserted.
C15_NoPlaceholderIsNoOp ==
  /\ injector.on /\ injector.passes > 0
  /\ injector.read.exists
  /\ Count(injector.read.text, "<%=") = 0
  => /\ ~injector.threw
     /\ injector.wrote
     /\ injector.out.text =
          Replace(injector.read.text, BodyEnd, injector.html \o BodyEnd)

\* C16, as claimed: when there is no template file the injection is
\* skipped: the handler raises no error and writes no output file.
C16_MissingTemplateSkipped ==
  /\ injector.on /\ injector.passes > 0
  /\ ~injector.read.exists
  => /\ ~injector.threw
     /\ ~injector.wrote
     /\ injector.out = injector.out0

\* C14, as claimed: two passes with the same bundle markup and the source
\* template unchanged write the same output, because each pass reads the
\* source template and never the output of the pass before.
C14_InjectionRepeatable ==
  /\ injector.on /\ injector.passes = 2
  /\ injector.html = injector.html0
  /\ injector.wrote /\ ~injector.threw0
  => /\ injector.out = injector.out0
     /\ injector.read = injector.src
     /\ injector.read0 = injector.src

\* C17: compileAndRun runs clean, compile, run in this order, each after the
\* one before has finished: nothing of compile exists while clean runs; in
\* development compile starts on a cleaned directory; run() is entered only
\* once compile() has settled; in production clean never runs and the
\* directory is never emptied.
C17_StagesInOrder ==
  /\ pc = "clean" =>
       ~IsProduction /\ bundler = "none" /\ tsc = "idle" /\ ~handlers
  /\ bundler # "none" \/ tsc # "idle" => pc \in {"compile", "run", "caught"}
  /\ pc \in {"compile", "run"} /\ ~IsProduction /\ ~env.outDirInSrc =>
       "old" \notin dist
  /\ IsProduction => "old" \in dist
  /\ handlers => pc \in {"run", "caught"} /\ tsc \in {"ok", "failed"}
  /\ pc = "run" => handlers

\* A development session went through clean and compile and is in run.
C17_Witness ==
  /\ ~IsProduction /\ ~env.outDirInSrc
  /\ pc = "run" /\ tsc = "ok" /\ "old" \notin dist
  /\ listener.state = "bound"

\* C18, as claimed: every teardown trigger enters gracefullyExit: a failure
\* of the clean, compile or run stage, an uncaught exception at any stage
\* of the session, a Ctrl-C key stroke and a q key stroke.
C18_EveryTriggerTearsDown ==
  /\ last.op \in {"clean", "compile", "run"} /\ ~last.ok =>
       Called("gracefullyExit")
  /\ last.op = "key" /\ last.ok => Called("gracefullyExit")
  /\ last.op \in {"uncaughtException", "fault"} => Called("gracefullyExit")
  /\ ~crashed

\* The tsc subprocess is writing the compiled server files.
ServerCompilerWriting == tsc = "running"
\* The bundler is writing its first build into the public directory.
ClientBuildWriting == bundler = "active" /\ hist.clientPrev = "none"
\* The 'bundled' handler has just written the compiled template.
InjectorWrote == last.op = "bundled" /\ Called("writeFile")

\* C20, as claimed: the server compiler, the client build and the template
\* injector never write to the compiled-output directory at the same time,
\* and clean has emptied it before any of them starts writing.
C20_WritesSerialized ==
  /\ ~(ServerCompilerWriting /\ ClientBuildWriting)
  /\ ~(ServerCompilerWriting /\ InjectorWrote)
  /\ ServerCompilerWriting \/ ClientBuildWriting \/ InjectorWrote =>
       pc # "clean" /\ (~IsProduction /\ ~env.outDirInSrc => "old" \notin dist)

\* The built-in template shipped with the tool.
BuiltInTemplate == <<"builtin">>

\* The template the claimed lookup uses: the first that exists among
\* options.templateFile, index.html.ejs in the source views directory the
\* loaded server lists, index.html.ejs under src/server/views, the built-in
\* template.
ClaimedTemplatePath(i) ==
  IF i.templateFile.set /\ i.templateFile.exists THEN ExplicitPath(i.root)
  ELSE IF /\ i.loadOk
          /\ \E k \in 1..Len(i.views) : i.views[k] = SrcViews(i.root)
          /\ i.src.exists
  THEN Join(SrcViews(i.root), IndexHtmlEjs)
  ELSE IF i.src.exists THEN Join(SrcViews(i.root), IndexHtmlEjs)
  ELSE BuiltInTemplate

\* C21, as claimed: the template an injection pass reads is the first one
\* that exists among the configured templateFile, the index template in the
\* source views directory of the loaded server, the one under
\* src/server/views, and the built-in fallback.
C21_TemplateLookupPriority ==
  injector.on /\ injector.passes > 0 =>
    injector.readPath = ClaimedTemplatePath(injector)

\* When no attempt is in progress, each loop's lastProblemAt is set exactly
\* when the loop's most recent attempt failed.  A reload attempt is in
\* progress until its listener has bound.
C22_ProblemMatchesLastAttempt ==
  /\ bundler # "none" =>
       (clientProblemAt # Null <=> hist.clientPrev = "fail")
  /\ listener.state # "binding" =>
       (lastProblemAt # Null <=> hist.serverPrev = "fail")

\* Every failed attempt sets its loop's lastProblemAt to the time of the
\* failure, and it changes in no other step than a failed attempt (set) and
\* the completion of a successful one (cleared).
C22_ProblemStep ==
  /\ now' # now /\ last'.op = "buildError" => clientProblemAt' = now
  /\ now' # now /\ last'.op = "change" /\ last'.calls # <<>> /\ ~last'.ok =>
       lastProblemAt' = now
  /\ clientProblemAt' # clientProblemAt =>
       \/ last'.op = "buildError" /\ clientProblemAt' = now
       \/ last'.op = "bundled" /\ clientProblemAt' = Null
  /\ lastProblemAt' # lastProblemAt =>
       \/ last'.op = "change" /\ ~last'.ok /\ lastProblemAt' = now
       \/ last'.op = "listening" /\ lastProblemAt' = Null

\* C22: in each watch loop lastProblemAt is set on every failed attempt,
\* cleared by the next successful attempt of that loop and changed by
\* nothing else; whenever no attempt is in progress it is non-null exactly
\* when the loop's most recent attempt failed.
C22_LastProblemAt ==
  []C22_ProblemMatchesLastAttempt /\ [][C22_ProblemStep]_vars

\* A reload that bound has cleared the server loop's problem while the
\* client loop still holds its own.
C22_Witness ==
  /\ last.op = "listening" /\ last.problem0 # Null
  /\ lastProblemAt = Null /\ hist.serverPrev = "ok"
  /\ clientProblemAt # Null /\ hist.clientPrev = "fail"

\* C23, as claimed: run() is entered only after the first client build of
\* the session has ended with a 'bundled' event and the compiled template
\* has been written.
C23_RunAfterFirstClientBuild ==
  handlers => hist.built /\ "template" \in dist

\* C24, as claimed: in production as in development a run() whose
\* loadServer succeeded calls server.listen on the configured port; only
\* the FS.watch registration is left out in production.
C24_RunListensInEveryMode ==
  last.op = "run" /\ last.ok =>
    /\ Called("listen")
    /\ listener.state = "binding"
    /\ listener.port = ListenPort
    /\ watching <=> ~IsProduction

\* C25, as claimed: a teardown that has been triggered ends in the exit of
\* the process, whether bundler.stop() fulfils or rejects: once the last
\* pending stop has settled, no gracefullyExit call is left that could
\* still reach process.exit(), so the process has exited.
C25_TeardownEndsInExit ==
  last.op = "stopSettled" /\ stopPending = 0 => exited

====
